---------------------------- MODULE Spec2Model ----------------------------
(***************************************************************************)
(* A model of seumter_scraper.py: one invocation of main() after another   *)
(* against the same Excel sheet, the same processed.txt ledger and the     *)
(* same download directory.  A run is the sequence of steps of main();     *)
(* the portal, the browser, the file system and Google Drive are the       *)
(* environment, whose outcomes are chosen nondeterministically.            *)
(***************************************************************************)
EXTENDS Naturals, Integers, Sequences, FiniteSets, TLC

(* ----------------------------- bounds --------------------------------- *)
\* rows of the '주소' column of the sheet
MaxRows == 3
\* invocations of main() in one behaviour
MaxRuns == 2
\* files the browser can drop into DOWNLOAD_DIR in one behaviour
MaxFiles == 2
\* the model's scaled-down value of CHUNK_SIZE (50 in the source)
ChunkBound == 2
MaxLines == 4

(* --------------------------- program constants ------------------------ *)
CHUNK_SIZE == ChunkBound

\* An address is a string, modelled as a tuple of characters so that
\* str.strip() can be computed.  An empty cell (NaN after read_excel) is <<>>.
NaN == <<>>
Cells == {<<"a">>, <<"a", " ">>, <<"b">>, NaN}
Addresses == Cells \ {NaN}
Unbound == -1

VARIABLES
    \* the file system and the sheet (persist across runs)
    column,            \* the '주소' column of the sheet, as read_excel returns it
    ledger,            \* processed.txt: the sequence of its lines
    dir,               \* the file names in DOWNLOAD_DIR
    dirExists,         \* os.path.exists(DOWNLOAD_DIR)
    fate,              \* what the portal does with each address: "ok" or "soft" on
                       \* every attempt, or "any" when each attempt is free to differ
    \* the process
    run,               \* number of invocations of main() started so far
    pc,                \* position of the running main(), "idle" between runs
    endState,          \* how the last run ended
    is_github_actions, \* GITHUB_ACTIONS == "true"
    hasLogin,          \* user_id and user_pw
    hasDrive,          \* drive_creds_json and drive_folder_id
    processed_addrs,   \* the set loaded from the ledger
    current_chunk,
    idx,               \* position of addr in current_chunk (for addr in current_chunk)
    before_files,
    new_files,
    pending,           \* files of new_files the upload loop has not reached yet
    processed_count,   \* Unbound until line 167 assigns it
    success,           \* what process_address returned for addr
    driverOpen,        \* this run's webdriver session exists and was not quit
    session,           \* the portal session: "none", "anonymous", "loggedIn", "manual", "lost"
    raised,            \* an exception is propagating
    handled,           \* the except clause of line 202 ran
    \* observations of the run, kept for the properties
    attempts,          \* the calls of process_address of this run: [addr, outcome]
    uploads,           \* the calls of upload_to_drive so far: [file, ok]
    ledgerAtStart,     \* the ledger's lines when this run started
    dirAtStart,        \* the files of DOWNLOAD_DIR when this run started (kept
                       \* by SpecPublish only)
    prevSoft           \* the addresses that soft-failed in the last run that reached the loop

vars == <<column, fate, ledger, dir, dirExists, run, pc, endState, is_github_actions,
          hasLogin, hasDrive, processed_addrs, current_chunk, idx, before_files,
          new_files, pending, processed_count, success, driverOpen, session,
          raised, handled, attempts, uploads, ledgerAtStart, dirAtStart, prevSoft>>

fsVars == <<column, fate, ledger, dir, dirExists>>
envVars == <<is_github_actions, hasLogin, hasDrive>>
\* the locals of main() that die with the process
loopVars == <<idx, before_files, new_files, pending, success>>
locals == <<envVars, processed_addrs, current_chunk, loopVars, session, raised, handled>>
obsVars == <<attempts, uploads, ledgerAtStart, dirAtStart, prevSoft>>

(* ------------------------------ helpers ------------------------------- *)
Range(s) == {s[i] : i \in 1..Len(s)}
Min(a, b) == IF a < b THEN a ELSE b

IsSpace(c) == c = " "

RECURSIVE LStrip(_)
LStrip(s) == IF s = <<>> THEN <<>>
             ELSE IF IsSpace(Head(s)) THEN LStrip(Tail(s)) ELSE s

RECURSIVE RStrip(_)
RStrip(s) == IF s = <<>> THEN <<>>
             ELSE IF IsSpace(s[Len(s)]) THEN RStrip(SubSeq(s, 1, Len(s) - 1)) ELSE s

\* str.strip()
Strip(s) == RStrip(LStrip(s))

\* set(line.strip() for line in f if line.strip())
LoadCompleted(lines) == {Strip(lines[i]) : i \in 1..Len(lines)} \ {<<>>}

\* Series.dropna()
DropNa(col) == SelectSeq(col, LAMBDA c : c # NaN)

\* a list that keeps its repeated values
UniqueKeepsAll(s) == s

\* Series.unique(): first occurrences, in order
RECURSIVE Unique(_)
Unique(s) == IF s = <<>> THEN <<>>
             ELSE LET r == Unique(SubSeq(s, 1, Len(s) - 1))
                      x == s[Len(s)]
                  IN  IF x \in Range(r) THEN r ELSE Append(r, x)

\* df['주소'].dropna().unique().tolist()
AllAddresses(col) == Unique(DropNa(col))

\* [addr for addr in all_addresses if addr not in processed_addrs]
TargetAddresses(all, done) == SelectSeq(all, LAMBDA a : a \notin done)

\* a slice that is one too long
ChunkOfOneMore(target) == SubSeq(target, 1, Min(CHUNK_SIZE + 1, Len(target)))

\* target_addresses[:CHUNK_SIZE]
ChunkOf(target) == SubSeq(target, 1, Min(CHUNK_SIZE, Len(target)))

\* the next k fresh file names of the directory
Fresh(k) == {f \in 1..MaxFiles : Cardinality(dir) < f /\ f <= Cardinality(dir) + k}
Room == MaxFiles - Cardinality(dir)

(* -------------------------------- Init -------------------------------- *)
\* A run reads the column through AllAddresses only (line 104), so two sheets
\* with the same AllAddresses give the same runs: one sheet is drawn for each
\* value of AllAddresses, the one without empty cells and repeated values.
Columns == {c \in UNION {[1..n -> Cells] : n \in 0..MaxRows} : AllAddresses(c) = c}

\* no run has started: nothing downloaded, no process
NoRun ==
    /\ dir = {}
    /\ dirExists = FALSE
    /\ run = 0
    /\ pc = "idle"
    /\ endState = "none"
    /\ is_github_actions = FALSE
    /\ hasLogin = FALSE
    /\ hasDrive = FALSE
    /\ processed_addrs = {}
    /\ current_chunk = <<>>
    /\ idx = 0
    /\ before_files = {}
    /\ new_files = {}
    /\ pending = {}
    /\ processed_count = Unbound
    /\ success = FALSE
    /\ driverOpen = FALSE
    /\ session = "none"
    /\ raised = FALSE
    /\ handled = FALSE
    /\ attempts = <<>>
    /\ uploads = {}
    /\ ledgerAtStart = <<>>
    /\ dirAtStart = {}
    /\ prevSoft = {}

Init ==
    /\ column \in Columns
    /\ fate = [a \in Addresses |-> "any"]
    /\ ledger = <<>>
    /\ NoRun

(* ------------------------------- actions ------------------------------ *)
\* How a run ends: main() returns, an exception leaves it, or the process is
\* killed.  The locals of main() die with the process.
End(how) ==
    /\ pc' = "idle"
    /\ endState' = how
    /\ is_github_actions' = FALSE
    /\ hasLogin' = FALSE
    /\ hasDrive' = FALSE
    /\ processed_addrs' = {}
    /\ current_chunk' = <<>>
    /\ idx' = 0
    /\ before_files' = {}
    /\ new_files' = {}
    /\ pending' = {}
    /\ success' = FALSE
    /\ session' = "none"
    /\ raised' = FALSE
    /\ handled' = FALSE

SoftFailed(att) == {att[i].addr : i \in {j \in 1..Len(att) : att[j].outcome = "soft"}}

\* lines 65-83 and 283-284: a new process; the environment variables are read
Begin(n) ==
    /\ pc = "idle"
    /\ run' = n
    /\ pc' = "checkExcel"
    /\ endState' = "none"
    /\ is_github_actions' \in BOOLEAN
    /\ hasLogin' \in BOOLEAN
    /\ hasDrive' \in BOOLEAN
    /\ processed_count' = Unbound
    /\ driverOpen' = FALSE
    /\ attempts' = <<>>
    /\ ledgerAtStart' = ledger
    /\ prevSoft' = IF attempts # <<>> THEN SoftFailed(attempts) ELSE prevSoft
    /\ UNCHANGED <<fsVars, processed_addrs, current_chunk, loopVars, session, raised,
                   handled, uploads>>

\* one more invocation of main(), up to the model's number of runs
StartRun == run < MaxRuns /\ Begin(run + 1) /\ UNCHANGED dirAtStart

\* lines 85-88: os.path.exists(EXCEL_PATH)
CheckExcel ==
    /\ pc = "checkExcel"
    /\ \E exists \in BOOLEAN :
         IF exists
         THEN pc' = "loadLedger" /\ UNCHANGED <<endState, locals>>
         ELSE End("sourceError")
    /\ UNCHANGED <<fsVars, run, processed_count, driverOpen, obsVars>>

\* lines 90-95: the ledger is read (the file, when it exists, is readable)
LoadLedger ==
    /\ pc = "loadLedger"
    /\ processed_addrs' = LoadCompleted(ledger)
    /\ pc' = "loadExcel"
    /\ UNCHANGED <<fsVars, run, endState, envVars, current_chunk, loopVars, session,
                   raised, handled, processed_count, driverOpen, obsVars>>

\* lines 97-118
LoadExcel ==
    /\ pc = "loadExcel"
    /\ \E readOK \in BOOLEAN, hasColumn \in BOOLEAN :
         IF ~readOK \/ ~hasColumn
         THEN End("sourceError")
         ELSE LET target == TargetAddresses(AllAddresses(column), processed_addrs)
              IN  IF target = <<>>
                  THEN End("noWork")
                  ELSE /\ current_chunk' = ChunkOf(target)
                       /\ pc' = "setup"
                       /\ UNCHANGED <<endState, envVars, processed_addrs, loopVars,
                                      session, raised, handled>>
    /\ UNCHANGED <<fsVars, run, processed_count, driverOpen, obsVars>>

\* lines 120-141: the options, and os.makedirs(DOWNLOAD_DIR) when it is missing
Setup ==
    /\ pc = "setup"
    /\ dirExists' = TRUE
    /\ pc' = "launch"
    /\ UNCHANGED <<column, fate, ledger, dir, run, endState, locals, processed_count,
                   driverOpen, obsVars>>

\* lines 143-148: webdriver.Chrome(...)
Launch ==
    /\ pc = "launch"
    /\ \E launched \in BOOLEAN :
         IF launched
         THEN driverOpen' = TRUE /\ pc' = "get" /\ UNCHANGED <<endState, locals>>
         ELSE End("launchError") /\ UNCHANGED driverOpen
    /\ UNCHANGED <<fsVars, run, processed_count, obsVars>>

\* lines 150-154: driver.get(TARGET_URL)
Navigate ==
    /\ pc = "get"
    /\ \E reached \in BOOLEAN :
         IF reached
         THEN session' = "anonymous" /\ pc' = "auth" /\ UNCHANGED raised
         ELSE raised' = TRUE /\ pc' = "except" /\ UNCHANGED session
    /\ UNCHANGED <<fsVars, run, endState, envVars, processed_addrs, current_chunk,
                   loopVars, handled, processed_count, driverOpen, obsVars>>

\* a login whose failure is logged and not raised again
AfterLoginSwallowed(confirmed) == "loop"

\* lines 157 and 213-239: perform_login returns once the logout button showed
\* (line 233) and raises again whatever it caught (line 239)
AfterLogin(confirmed) == IF confirmed THEN "loop" ELSE "except"

\* lines 156-167: with credentials perform_login; without them a headless run
\* only logs and an interactive run waits in input()
Authenticate ==
    /\ pc = "auth"
    /\ IF hasLogin
       THEN \E confirmed \in BOOLEAN :
              /\ session' = IF confirmed THEN "loggedIn" ELSE session
              /\ pc' = AfterLogin(confirmed)
              /\ processed_count' = IF pc' = "loop" THEN 0 ELSE processed_count
              /\ raised' = (pc' = "except")
       ELSE IF is_github_actions
            THEN /\ processed_count' = 0
                 /\ pc' = "loop"
                 /\ UNCHANGED <<session, raised>>
            ELSE /\ pc' = "input"
                 /\ UNCHANGED <<session, raised, processed_count>>
    /\ idx' = IF pc' = "loop" THEN 1 ELSE idx
    /\ UNCHANGED <<fsVars, run, endState, envVars, processed_addrs, current_chunk,
                   before_files, new_files, pending, success, driverOpen, handled,
                   obsVars>>

\* line 164: input() returns when the operator presses enter
OperatorConfirms ==
    /\ pc = "input"
    /\ session' = "manual"
    /\ processed_count' = 0
    /\ idx' = 1
    /\ pc' = "loop"
    /\ UNCHANGED <<fsVars, run, endState, envVars, processed_addrs, current_chunk,
                   before_files, new_files, pending, success, driverOpen, raised,
                   handled, obsVars>>

\* a loop that enters the success branch whatever process_address returned
AfterFetchAlways(ok) == "diff"

\* lines 177 and 200: only a True from process_address enters the success branch
AfterFetch(ok) == IF ok THEN "diff" ELSE "sleep"

\* an upload whose failure is raised into the loop instead of returned
AfterUploadRaises(ok, rest) == IF ~ok THEN "except" ELSE IF rest = {} THEN "mark" ELSE "upload"

\* lines 45-63: upload_to_drive catches every exception and returns a bool, which
\* the loop of lines 187-189 ignores; the loop goes on to the next file
AfterUpload(ok, rest) == IF rest = {} THEN "mark" ELSE "upload"

\* a loop that skips every other element
NextIdxSkips(i) == i + 2

\* line 169: the for loop moves to the next element of current_chunk
NextIdx(i) == i + 1

\* lines 169-173: the loop's test, then before_files = set(os.listdir(DOWNLOAD_DIR))
LoopHead ==
    /\ pc = "loop"
    /\ IF idx > Len(current_chunk)
       THEN pc' = "finally" /\ UNCHANGED before_files
       ELSE before_files' = dir /\ pc' = "fetch"
    /\ UNCHANGED <<fsVars, run, endState, envVars, processed_addrs, current_chunk,
                   idx, new_files, pending, success, processed_count, driverOpen,
                   session, raised, handled, obsVars>>

\* lines 175 and 241-281: process_address.  It returns True when the search and
\* the tab steps went through, and False on a missing search box (246-248) or on
\* any other exception (279-281); a session that was sent back to the login page
\* shows no search box, so it ends in the same return False.  The browser may
\* have written files to DOWNLOAD_DIR by the time the after-listing is taken.
Outcomes ==
    IF session = "lost" THEN {"lost"}
    ELSE IF fate[current_chunk[idx]] = "any" THEN {"ok", "soft", "lost"}
    ELSE {fate[current_chunk[idx]]}

Fetch ==
    /\ pc = "fetch"
    /\ \E outcome \in Outcomes, k \in 0..Room :
         /\ success' = (outcome = "ok")
         /\ session' = IF outcome = "lost" THEN "lost" ELSE session
         /\ dir' = dir \cup Fresh(k)
         /\ attempts' = Append(attempts, [addr |-> current_chunk[idx], outcome |-> outcome])
         /\ pc' = AfterFetch(outcome = "ok")
    /\ UNCHANGED <<column, fate, ledger, dirExists, run, endState, envVars, processed_addrs,
                   current_chunk, idx, before_files, new_files, pending,
                   processed_count, driverOpen, raised, handled, uploads,
                   ledgerAtStart, dirAtStart, prevSoft>>

\* a diff that forgets the before-listing
NewFilesAll(after, before) == after

\* lines 180-181: new_files = after_files - before_files
NewFiles(after, before) == after \ before

\* lines 179-193: after_files, new_files, and the choice of the upload branch
Diff ==
    /\ pc = "diff"
    /\ new_files' = NewFiles(dir, before_files)
    /\ pending' = IF new_files' # {} /\ hasDrive THEN new_files' ELSE {}
    /\ pc' = IF pending' # {} THEN "upload" ELSE "mark"
    /\ UNCHANGED <<fsVars, run, endState, envVars, processed_addrs, current_chunk,
                   idx, before_files, success, processed_count, driverOpen, session,
                   raised, handled, obsVars>>

\* lines 187-189: one iteration of for filename in new_files
Upload ==
    /\ pc = "upload"
    /\ \E f \in pending, ok \in BOOLEAN :
         /\ uploads' = uploads \cup {[file |-> f, ok |-> ok]}
         /\ pending' = pending \ {f}
         /\ pc' = AfterUpload(ok, pending')
         /\ raised' = (pc' = "except")
    /\ UNCHANGED <<fsVars, run, endState, envVars, processed_addrs, current_chunk,
                   idx, before_files, new_files, success, processed_count,
                   driverOpen, session, handled, attempts, ledgerAtStart,
                   dirAtStart, prevSoft>>

\* a counter that is not advanced
CountAfterMarkStuck(n) == n

\* line 197: processed_count += 1
CountAfterMark(n) == n + 1

\* lines 195-198: the append to processed.txt, and processed_count += 1; the
\* open or the write may raise (the file is not writable, the disk is full)
Mark ==
    /\ pc = "mark"
    /\ \E written \in BOOLEAN :
         IF written
         THEN /\ ledger' = Append(ledger, current_chunk[idx])
              /\ processed_count' = CountAfterMark(processed_count)
              /\ pc' = "sleep"
              /\ UNCHANGED raised
         ELSE /\ raised' = TRUE
              /\ pc' = "except"
              /\ UNCHANGED <<ledger, processed_count>>
    /\ UNCHANGED <<column, fate, dir, dirExists, run, endState, envVars, processed_addrs,
                   current_chunk, loopVars, driverOpen, session, handled, obsVars>>

\* line 200: time.sleep(2), the end of one pass of the loop; a download that was
\* still running may land now.  before_files, new_files and success are assigned
\* again before the next pass reads them.
Sleep ==
    /\ pc = "sleep"
    /\ \E k \in 0..Room : dir' = dir \cup Fresh(k)
    /\ idx' = NextIdx(idx)
    /\ before_files' = {}
    /\ new_files' = {}
    /\ success' = FALSE
    /\ pc' = "loop"
    /\ UNCHANGED <<column, fate, ledger, dirExists, run, endState, envVars, processed_addrs,
                   current_chunk, pending, processed_count, driverOpen, session,
                   raised, handled, obsVars>>

\* lines 202-205: the except clause; save_screenshot may raise in its turn
Except ==
    /\ pc = "except"
    /\ handled' = TRUE
    /\ IF is_github_actions
       THEN \E shot \in BOOLEAN : raised' = ~shot
       ELSE raised' = FALSE
    /\ pc' = "finally"
    /\ UNCHANGED <<fsVars, run, endState, envVars, processed_addrs, current_chunk,
                   loopVars, processed_count, driverOpen, session, obsVars>>

\* how a run that reached the end of the finally clause is left
Outcome == IF raised THEN "escaped" ELSE IF handled THEN "aborted" ELSE "completed"

\* lines 206-211: the finally clause reads processed_count, then quits the
\* driver in a headless run only
Finally ==
    /\ pc = "finally"
    /\ IF processed_count = Unbound
       THEN End("escaped") /\ UNCHANGED driverOpen
       ELSE IF is_github_actions
            THEN \E quit \in BOOLEAN :
                   IF quit
                   THEN driverOpen' = FALSE /\ End(Outcome)
                   ELSE driverOpen' \in BOOLEAN /\ End("escaped")
            ELSE End(Outcome) /\ UNCHANGED driverOpen
    /\ UNCHANGED <<fsVars, run, processed_count, obsVars>>

\* the process is killed from outside, at any point of a run
Kill ==
    /\ pc # "idle"
    /\ End("killed")
    /\ UNCHANGED <<fsVars, run, processed_count, driverOpen, obsVars>>

\* the steps of a run that has started
Steps ==
    \/ CheckExcel
    \/ LoadLedger
    \/ LoadExcel
    \/ Setup
    \/ Launch
    \/ Navigate
    \/ Authenticate
    \/ OperatorConfirms
    \/ LoopHead
    \/ Fetch
    \/ Diff
    \/ Upload
    \/ Mark
    \/ Sleep
    \/ Except
    \/ Finally
    \/ Kill

Next == StartRun \/ Steps

Spec == Init /\ [][Next]_vars

\* One run over every sheet the column can hold, empty cells and repeated
\* values included; the ledger is empty or holds the first address, as a run
\* killed after its first append leaves it.
RawColumns == UNION {[1..n -> Cells] : n \in 0..MaxRows}

InitSource ==
    /\ column \in RawColumns
    /\ fate = [a \in Addresses |-> "any"]
    /\ ledger \in {<<>>, SubSeq(AllAddresses(column), 1, Min(1, Len(AllAddresses(column))))}
    /\ NoRun

FirstRun == run = 0 /\ StartRun

NextSource == FirstRun \/ Steps

SpecSource == InitSource /\ [][NextSource]_vars

\* the same runs, each remembering the directory it started with
StartRunSnap == run < MaxRuns /\ Begin(run + 1) /\ dirAtStart' = dir

NextPublish == StartRunSnap \/ Steps

SpecPublish == Init /\ [][NextPublish]_vars

\* Run after run without end, none of them aborted: the sheet is readable, the
\* browser starts, the portal opens, the login is confirmed, the ledger can be
\* written and nothing kills the process.  Every address has its fate: its
\* fetch succeeds on every attempt or fails softly on every attempt.  Runs go
\* on while the ledger file has fewer than MaxLines lines.
InitLive ==
    /\ column \in Columns
    /\ fate \in [Addresses -> {"ok", "soft"}]
    /\ ledger = <<>>
    /\ NoRun

StartAgain == Len(ledger) < MaxLines /\ Begin(1) /\ UNCHANGED dirAtStart
SheetFound == CheckExcel /\ pc' = "loadLedger"
SheetRead == LoadExcel /\ endState' # "sourceError"
Launched == Launch /\ pc' = "get"
Opened == Navigate /\ pc' = "auth"
LoggedIn == Authenticate /\ pc' # "except"
Marked == Mark /\ pc' = "sleep"
Closed == Finally /\ endState' # "escaped"

NextLive ==
    \/ StartAgain
    \/ SheetFound
    \/ LoadLedger
    \/ SheetRead
    \/ Setup
    \/ Launched
    \/ Opened
    \/ LoggedIn
    \/ OperatorConfirms
    \/ LoopHead
    \/ Fetch
    \/ Diff
    \/ Upload
    \/ Marked
    \/ Sleep
    \/ Closed

\* a started process keeps running and main() is invoked again and again
SpecLive == InitLive /\ [][NextLive]_vars /\ WF_vars(NextLive)

(* ------------------------- observations of a run ---------------------- *)
\* the ledger this run has read: past lines 91-95
Loaded == pc \notin {"idle", "checkExcel", "loadLedger"}
\* the run is past line 113: current_chunk is set
Chunked == pc \notin {"idle", "checkExcel", "loadLedger", "loadExcel"}
\* the for loop ran to its end: no exception, no kill
LoopDone == pc = "finally" /\ ~handled /\ ~raised
\* the addresses process_address was called on in this run, in order
AttemptAddrs == [i \in 1..Len(attempts) |-> attempts[i].addr]
\* the lines this run has added to the ledger
Appended == SubSeq(ledger, Len(ledgerAtStart) + 1, Len(ledger))
Occurrences(a) == Cardinality({i \in 1..Len(ledger) : ledger[i] = a})
IsPrefix(s, t) == Len(s) <= Len(t) /\ SubSeq(t, 1, Len(s)) = s

(* ------------------------------ properties ---------------------------- *)
\* C1: after any sequence of runs no address occurs more than once in the
\* ledger file, for every address string the sheet can supply.
C1_AtMostOnceInLedger == \A a \in Range(ledger) : Occurrences(a) = 1

\* C3: an address whose process_address call soft-failed is not in the ledger
\* during or after that run, the run goes on with the next address of the chunk,
\* and the address is in the WorkChunk the next run computes.
C3_SoftFailureNotPersisted ==
    /\ \A x \in SoftFailed(attempts) : x \notin Range(ledger)
    /\ (attempts # <<>> /\ attempts[Len(attempts)].outcome = "soft"
            /\ pc \in {"except", "finally"})
        => (~raised /\ ~handled /\ Len(attempts) = Len(current_chunk))
    /\ pc = "setup" => prevSoft \subseteq Range(current_chunk)

\* C4: once the fetch of the k-th address found the session unusable, no later
\* address of the chunk is attempted in that run, and neither the k-th address
\* nor a later one is added to the ledger.
C4_SessionFatalShortCircuit ==
    \A k \in 1..Len(attempts) :
        attempts[k].outcome = "lost"
        => /\ k = Len(attempts)
           /\ attempts[k].addr \notin Range(Appended)

\* C6: a run that finds every source address in the ledger makes no fetch
\* attempt, starts no browser, leaves the ledger as it was and stops after
\* reading the sheet.
C6_IdempotentOnCompleteLedger ==
    (Loaded /\ Range(AllAddresses(column)) \subseteq Range(ledgerAtStart))
    => /\ pc = "loadExcel"
       /\ attempts = <<>>
       /\ ~driverOpen
       /\ ledger = ledgerAtStart

\* C7: every address written to the ledger is in the completed set a later run
\* loads, compared by exact string equality, and is not attempted again.
C7_LedgerRoundTrip ==
    Loaded => /\ Range(ledgerAtStart) \subseteq processed_addrs
              /\ \A i \in 1..Len(attempts) : attempts[i].addr \notin Range(ledgerAtStart)

\* C2: the addresses process_address is called on are a prefix of the source
\* addresses (deduplicated, in source order) without those of the completed set
\* the run loaded; a run whose loop was not aborted attempts exactly the first
\* min(CHUNK_SIZE, remaining) of them, each once and in that order.
C2_Remaining == SelectSeq(AllAddresses(column), LAMBDA a : a \notin processed_addrs)
C2_ResumptionInSourceOrder ==
    Chunked =>
        /\ IsPrefix(AttemptAddrs, C2_Remaining)
        /\ Len(AttemptAddrs) <= CHUNK_SIZE
        /\ \A i, j \in 1..Len(AttemptAddrs) : i # j => AttemptAddrs[i] # AttemptAddrs[j]
        /\ LoopDone => AttemptAddrs = SubSeq(C2_Remaining, 1, Min(CHUNK_SIZE, Len(C2_Remaining)))
\* a resumed run (the ledger held one address) that attempted two others to the end
C2_Witness ==
    /\ LoopDone
    /\ Len(column) = 3
    /\ Len(ledgerAtStart) = 1
    /\ ledgerAtStart[1] = column[1]
    /\ Len(AttemptAddrs) = 2
    /\ AttemptAddrs = <<column[2], column[3]>>

\* C5: the lines a run adds to the ledger are addresses of its chunk whose
\* process_address call returned True in this run, in order; the append is made
\* at line 195 only, after the directory diff and after upload_to_drive has
\* returned for every new file.
C5_OkAddrs ==
    LET ok == SelectSeq(attempts, LAMBDA t : t.outcome = "ok")
    IN  [i \in 1..Len(ok) |-> ok[i].addr]
C5_OnlySuccesses ==
    /\ IsPrefix(Appended, C5_OkAddrs)
    /\ Chunked => Range(Appended) \subseteq Range(current_chunk)
C5_AppendStep ==
    ledger' # ledger =>
        /\ pc = "mark"
        /\ success
        /\ attempts[Len(attempts)] = [addr |-> current_chunk[idx], outcome |-> "ok"]
        /\ ledger' = Append(ledger, current_chunk[idx])
        /\ new_files = dir \ before_files
        /\ pending = {}
        /\ hasDrive => \A f \in new_files : \E u \in uploads : u.file = f
C5_LedgerRecordsOnlySuccesses == []C5_OnlySuccesses /\ [][C5_AppendStep]_vars
\* an address was recorded after its new file had been handed to the upload
C5_Witness ==
    /\ pc = "sleep"
    /\ success
    /\ hasDrive
    /\ new_files # {}
    /\ Appended # <<>>
    /\ Appended[Len(Appended)] = current_chunk[idx]

\* C8: a run attempts at most CHUNK_SIZE addresses and adds at most CHUNK_SIZE
\* lines to the ledger; with at least CHUNK_SIZE addresses unprocessed (absent
\* from the ledger file, or from the set loaded from it) and the loop not
\* aborted, it attempts exactly CHUNK_SIZE.
C8_Unprocessed == SelectSeq(AllAddresses(column), LAMBDA a : a \notin Range(ledgerAtStart))
C8_ChunkBound ==
    /\ Len(attempts) <= CHUNK_SIZE
    /\ Len(Appended) <= CHUNK_SIZE
    /\ (LoopDone /\ (Len(C2_Remaining) >= CHUNK_SIZE \/ Len(C8_Unprocessed) >= CHUNK_SIZE))
        => Len(attempts) = CHUNK_SIZE
\* more addresses remained than the chunk holds, and the loop ran to its end
C8_Witness ==
    /\ LoopDone
    /\ Len(C2_Remaining) > CHUNK_SIZE
    /\ Len(C8_Unprocessed) > CHUNK_SIZE
    /\ Len(attempts) = CHUNK_SIZE
    /\ Len(Appended) = CHUNK_SIZE

\* C9: after process_address returned True, the publish phase always ends at the
\* append of line 195: a failed upload raises nothing, every new file is handed
\* to upload_to_drive when Drive is configured, and the address is recorded.
C9_PublishDone ==
    /\ pc = "mark" =>
          /\ success
          /\ pending = {}
          /\ new_files = dir \ before_files
          /\ hasDrive => \A f \in new_files : \E u \in uploads : u.file = f
    /\ (pc = "sleep" /\ success) =>
          /\ Appended # <<>>
          /\ Appended[Len(Appended)] = current_chunk[idx]
C9_PublishStep ==
    pc \in {"diff", "upload"} =>
        \/ pc' = "idle" /\ endState' = "killed"
        \/ /\ pc' \in {"upload", "mark"}
           /\ ~raised'
           /\ pc = "upload" => /\ pending' \subseteq pending
                               /\ Cardinality(pending') = Cardinality(pending) - 1
C9_PublishFailureIsolated == []C9_PublishDone /\ [][C9_PublishStep]_vars
\* an upload of this address failed and the address was recorded all the same
C9_Witness ==
    /\ pc = "sleep"
    /\ success
    /\ \E f \in new_files : [file |-> f, ok |-> FALSE] \in uploads
    /\ ledger # <<>>
    /\ ledger[Len(ledger)] = current_chunk[idx]

\* C10: whatever fails, a run ends in normal completion, no-remaining-work or an
\* abort; no exception leaves main().
C10_DefinedEndState == endState # "escaped"

(* ------------------------------- C11 ---------------------------------- *)

\* the run has not passed lines 143-166: no browser yet, or the portal or the
\* login failed (processed_count is bound at line 167)
C11_BeforeGate == processed_count = Unbound

C11_Gate ==
    /\ C11_BeforeGate => attempts = <<>> /\ ledger = ledgerAtStart
    /\ (pc = "fetch" /\ hasLogin) =>
          /\ session \in {"loggedIn", "lost"}
          /\ attempts = <<>> => session = "loggedIn"

C11_AbortStep ==
    (pc = "except" /\ C11_BeforeGate) => (pc' \in {"finally", "idle"} /\ C11_BeforeGate')

\* C11: when the browser cannot be started, the portal cannot be opened or the
\* login fails, the run goes to its end with no address attempted and the
\* ledger as it was; with credentials, the first address is fetched only after
\* the login was confirmed.
C11_AuthenticationGate == []C11_Gate /\ [][C11_AbortStep]_vars

\* a later run whose login failed: it is in its finally block, nothing attempted
C11_Witness ==
    /\ pc = "finally"
    /\ handled
    /\ hasLogin
    /\ session = "anonymous"
    /\ C11_BeforeGate
    /\ ledger # <<>>

(* ------------------------------- C12 ---------------------------------- *)

\* C12: a headless run without portal credentials stops before the loop, so it
\* attempts no address and leaves the ledger as it was; an interactive run
\* without credentials fetches only after the operator has confirmed.
C12_UnattendedNeedsCredentials ==
    pc # "idle" =>
        /\ (is_github_actions /\ ~hasLogin) =>
              /\ attempts = <<>>
              /\ ledger = ledgerAtStart
              /\ pc \notin {"loop", "fetch", "diff", "upload", "mark", "sleep"}
        /\ (~is_github_actions /\ ~hasLogin /\ pc = "fetch") =>
              session \in {"manual", "lost"}

(* ------------------------------- C13 ---------------------------------- *)

\* the loop is between line 173 and line 196 for current_chunk[idx]
C13_InFlight == pc \in {"fetch", "diff", "upload", "mark"}

\* the run was killed after process_address returned True and before line 196
C13_KilledBeforeMark ==
    /\ pc = "idle"
    /\ endState = "killed"
    /\ Len(Appended) < Len(C5_OkAddrs)

\* the chunk the next run computes from the sheet and the ledger file
C13_NextChunk == ChunkOf(TargetAddresses(AllAddresses(column), LoadCompleted(ledger)))

\* C13: within a run the ledger only grows by appends; a killed run leaves in
\* the ledger exactly the addresses it had recorded; the address in flight at
\* the kill is not in the ledger and the next run attempts it again.
C13_KillConsistency ==
    /\ IsPrefix(ledgerAtStart, ledger)
    /\ IsPrefix(Appended, C5_OkAddrs)
    /\ C13_InFlight => current_chunk[idx] \notin Range(ledger)
    /\ C13_KilledBeforeMark =>
          LET inFlight == attempts[Len(attempts)].addr
          IN  /\ inFlight \notin Range(ledger)
              /\ inFlight \in Range(C13_NextChunk)

(* ------------------------------- C14 ---------------------------------- *)

\* the first row of the sheet that holds the value v
C14_FirstRow(col, v) ==
    CHOOSE i \in 1..Len(col) : col[i] = v /\ \A j \in 1..(i - 1) : col[j] # v

\* L holds the non-empty values of the column, each once, in first-seen order
C14_IsAddressList(L, col) ==
    /\ Range(L) = Range(col) \ {NaN}
    /\ \A i, j \in 1..Len(L) : i < j => C14_FirstRow(col, L[i]) < C14_FirstRow(col, L[j])

\* the chunk is drawn from the address list, in its order
C14_ChunkFromList ==
    /\ Range(current_chunk) \subseteq (Range(column) \ {NaN}) \ processed_addrs
    /\ \A i, j \in 1..Len(current_chunk) :
          i < j => C14_FirstRow(column, current_chunk[i]) < C14_FirstRow(column, current_chunk[j])
    /\ \A a \in (Range(column) \ {NaN}) \ processed_addrs :
          \/ a \in Range(current_chunk)
          \/ Len(current_chunk) = CHUNK_SIZE

\* C14: a sheet that is missing, unreadable or without the address column ends
\* the run with no browser session, no fetch attempt and no ledger change;
\* otherwise the address list is the column's values without the empty rows
\* and without repeated values, in first-seen order.
C14_SourceGate ==
    /\ (pc = "idle" /\ endState = "sourceError") =>
          /\ ~driverOpen
          /\ session = "none"
          /\ attempts = <<>>
          /\ ledger = ledgerAtStart
    /\ C14_IsAddressList(AllAddresses(column), column)
    /\ (Chunked /\ pc # "idle") => C14_ChunkFromList

\* a sheet with an empty row and a repeated value has been read and its
\* one address has been fetched
C14_Witness ==
    /\ pc = "diff"
    /\ NaN \in Range(column)
    /\ Len(AllAddresses(column)) < Len(DropNa(column))
    /\ AttemptAddrs = AllAddresses(column)

(* ------------------------------- C15 ---------------------------------- *)

\* C15: a run that started a browser has closed it when the run ends, on every
\* path and in headless and interactive mode alike.
C15_SessionAlwaysClosed ==
    (pc = "idle" /\ endState \notin {"none", "killed"}) => ~driverOpen

(* ------------------------------- C16 ---------------------------------- *)

\* the files upload_to_drive has been called on
C16_Published == {u.file : u \in uploads}

\* the before-listing of a cycle holds every file the run started with and
\* every file published so far; what a failed attempt left is not published
C16_Snapshots ==
    /\ pc \in {"fetch", "diff", "upload", "mark"} =>
          /\ dirAtStart \subseteq before_files
          /\ before_files \subseteq dir
    /\ pc \in {"fetch", "diff"} => C16_Published \subseteq before_files
    /\ (pc = "sleep" /\ ~success) => (dir \ before_files) \cap C16_Published = {}
    /\ C16_Published \subseteq dir

\* uploads change in the upload loop only, by one file that is new in this
\* cycle's diff, after a successful fetch, and that was never published before
C16_UploadStep ==
    /\ uploads' # uploads => pc = "upload"
    /\ (pc = "upload" /\ pc' # "idle") =>
          \E f \in pending :
             /\ pending' = pending \ {f}
             /\ C16_Published' = C16_Published \cup {f}
             /\ f \notin C16_Published
             /\ f \in dir \ before_files
             /\ f \notin dirAtStart
             /\ success
             /\ attempts[Len(attempts)] = [addr |-> current_chunk[idx], outcome |-> "ok"]

\* C16: a file is published at most once, in the cycle of the address whose
\* diff first shows it; it is in the before-listing of every later address; a
\* file present when the run starts is never published by that run, nor is a
\* file that appeared during a failed attempt.
C16_NoRepublishing == []C16_Snapshots /\ [][C16_UploadStep]_vars

\* the second run published the file it downloaded; the file that a failed
\* attempt of the first run left behind was there at the start and is unpublished
C16_Witness ==
    /\ pc = "mark"
    /\ run = 2
    /\ hasDrive
    /\ dirAtStart # {}
    /\ dirAtStart \cap C16_Published = {}
    /\ C16_Published # {}

(* ------------------------------- C17 ---------------------------------- *)

\* C17: when runs follow one another without end and none is aborted, every
\* address of the sheet whose fetch succeeds is eventually attempted and
\* recorded in the ledger, whatever other addresses fail on every attempt.
C17_ProgressAcrossRuns ==
    \A a \in Addresses :
        []<>(pc = "checkExcel") =>
            ((a \in Range(column) /\ fate[a] = "ok") ~> (a \in Range(ledger)))

(* ------------------------------- C18 ---------------------------------- *)

\* C18, the half about runs that do not overlap: when the runs follow one
\* another, no address that an earlier run wrote to the ledger is attempted
\* and written again by a later run, and no file that an earlier run left in
\* the directory is taken for new and published by a later run.
C18_SequentialRunsSafe ==
    /\ \A i \in 1..Len(attempts) :
          attempts[i].addr \in Range(ledgerAtStart) =>
              attempts[i].addr \notin Range(Appended)
    /\ pc \in {"upload", "mark"} => new_files \cap dirAtStart = {}

(* ------------------------------- C19 ---------------------------------- *)

\* the finally clause of a run that entered the loop: line 207 reports
C19_Reporting == pc = "finally" /\ processed_count # Unbound

\* the calls of process_address, those that returned False, and the addresses
\* of the chunk process_address was not called on
C19_Attempted == Len(attempts)
C19_SoftFailed == Cardinality({i \in 1..Len(attempts) : attempts[i].outcome # "ok"})
C19_Remaining == Cardinality(Range(current_chunk) \ Range(AttemptAddrs))

\* C19: at the end of a run that entered the loop the reported count is the
\* number of addresses the run appended, attempted = succeeded + soft-failed
\* and attempted + remaining = size of the chunk.
C19_SummaryMatchesLedger ==
    C19_Reporting =>
        /\ processed_count = Len(Appended)
        /\ C19_Attempted = processed_count + C19_SoftFailed
        /\ C19_Attempted + C19_Remaining = Len(current_chunk)

\* C19, amended: the reported count is the number of addresses the run
\* appended and attempted + remaining = size of the chunk; attempted =
\* succeeded + soft-failed when the loop ran to its end, and when an exception
\* ended the loop at most one attempted address is neither.
C19_SummaryWithInFlight ==
    C19_Reporting =>
        /\ processed_count = Len(Appended)
        /\ C19_Attempted + C19_Remaining = Len(current_chunk)
        /\ C19_Attempted >= processed_count + C19_SoftFailed
        /\ C19_Attempted <= processed_count + C19_SoftFailed + 1
        /\ ~handled => C19_Attempted = processed_count + C19_SoftFailed

\* the second address was fetched, the append failed: two attempts, one recorded
C19_Witness ==
    /\ C19_Reporting
    /\ handled
    /\ processed_count = 1
    /\ C19_Attempted = 2
    /\ C19_SoftFailed = 0
    /\ C19_Remaining = 0

=============================================================================
